---- MODULE Spec2Model ----
(***************************************************************************)
(* Model of src/beko.py, the "Raw File Enricher (No Shipment Type)"        *)
(* Streamlit script: a spreadsheet is uploaded, its headers are validated, *)
(* identifier and date columns are normalised, Shipment ID, IsTracked,     *)
(* Tracked Shipments, Tracking field and Week are derived, Tracking Error  *)
(* is forced to "Tracked" for tracked-like rows, and the table is          *)
(* projected onto a fixed column list and emitted.                         *)
(*                                                                         *)
(* Text is modelled by TLA+ strings, cut and joined with SubSeq, Len and   *)
(* \o, so trimming, upper-casing, splitting, formatting and parsing are    *)
(* computed character by character as the code computes them.              *)
(***************************************************************************)
EXTENDS Integers, Sequences, FiniteSets, TLC

VARIABLES
  pc,                 \* position of the script's single run
  raw_file,           \* the uploaded table (None when nothing is uploaded)
  df,                 \* the working DataFrame
  pickup_col,         \* the pickup-window header found in the input
  mask_tracked_like,  \* the boolean mask of line 183, one entry per row
  out_df,             \* the projected DataFrame
  ui,                 \* what the script has shown: errors, preview, download, counts
  call                \* a direct call of one helper: its name, arguments and result

vars == <<pc, raw_file, df, pickup_col, mask_tracked_like, out_df, ui, call>>

(***************************************************************************)
(* Bounds of the model.                                                    *)
(***************************************************************************)
\* the uploaded tables hold at most MaxRows records
MaxRows == 2
\* dates fed to the week helpers span the years 2020 .. 2020 + MaxYears
MaxYears == 6

(***************************************************************************)
(* Cell values.  A cell read from the spreadsheet is a missing marker, a   *)
(* string, an integer, a float (kept to one decimal: tenths / 10), a bool  *)
(* or a timestamp.                                                         *)
(***************************************************************************)
None == [t |-> "None"]
NaN == [t |-> "nan"]
NaT == [t |-> "nat"]
Str(s) == [t |-> "str", s |-> s]
Int_(n) == [t |-> "int", n |-> n]
Float(tenths) == [t |-> "float", tenths |-> tenths]
Bool(b) == [t |-> "bool", b |-> b]
Timestamp(y, m, d, hh, mi) == [t |-> "ts", y |-> y, m |-> m, d |-> d, hh |-> hh, mi |-> mi]

\* a raised Python exception, as the value of the expression that raised it
Raised == [t |-> "exception"]

\* pd.isna
isna(x) == x.t \in {"nan", "nat", "None"}

(***************************************************************************)
(* Text primitives of the Python runtime used by the helpers.              *)
(***************************************************************************)
Ch(s, i) == SubSeq(s, i, i)

LowerAlphabet == "abcdefghijklmnopqrstuvwxyz"
UpperAlphabet == "ABCDEFGHIJKLMNOPQRSTUVWXYZ"
Digits == "0123456789"

IsSpace(c) == c \in {" ", "\t", "\n"}

RECURSIVE lstrip(_)
lstrip(s) ==
  IF s = "" THEN ""
  ELSE IF IsSpace(Ch(s, 1)) THEN lstrip(SubSeq(s, 2, Len(s)))
  ELSE s

RECURSIVE rstrip(_)
rstrip(s) ==
  IF s = "" THEN ""
  ELSE IF IsSpace(Ch(s, Len(s))) THEN rstrip(SubSeq(s, 1, Len(s) - 1))
  ELSE s

\* str.strip()
strip(s) == rstrip(lstrip(s))

UpperCh(c) ==
  IF \E i \in 1..26 : Ch(LowerAlphabet, i) = c
  THEN Ch(UpperAlphabet, CHOOSE i \in 1..26 : Ch(LowerAlphabet, i) = c)
  ELSE c

\* str.upper()
RECURSIVE upper(_)
upper(s) ==
  IF s = "" THEN "" ELSE UpperCh(Ch(s, 1)) \o upper(SubSeq(s, 2, Len(s)))

IsDigit(c) == \E i \in 1..10 : Ch(Digits, i) = c
DigitVal(c) == (CHOOSE i \in 1..10 : Ch(Digits, i) = c) - 1
AllDigits(s) == s # "" /\ \A i \in 1..Len(s) : IsDigit(Ch(s, i))

RECURSIVE NatOfDigits(_)
NatOfDigits(s) ==
  IF s = "" THEN 0
  ELSE 10 * NatOfDigits(SubSeq(s, 1, Len(s) - 1)) + DigitVal(Ch(s, Len(s)))

RECURSIVE DigitsOfNat(_)
DigitsOfNat(n) ==
  IF n < 10 THEN Ch(Digits, n + 1)
  ELSE DigitsOfNat(n \div 10) \o Ch(Digits, (n % 10) + 1)

\* str(n) of an int
IntToStr(n) == IF n < 0 THEN "-" \o DigitsOfNat(-n) ELSE DigitsOfNat(n)

\* str(x) of a float with one decimal, e.g. 1.5 -> "1.5", -0.5 -> "-0.5", 7.0 -> "7.0"
FloatToStr(tenths) ==
  LET a == IF tenths < 0 THEN -tenths ELSE tenths
  IN  (IF tenths < 0 THEN "-" ELSE "") \o DigitsOfNat(a \div 10) \o "." \o DigitsOfNat(a % 10)

\* f"{n:02d}" and the four-digit year of a timestamp's text
Pad2(n) == IF 0 <= n /\ n < 10 THEN "0" \o DigitsOfNat(n) ELSE IntToStr(n)
Pad4(n) ==
  IF n < 10 THEN "000" \o DigitsOfNat(n)
  ELSE IF n < 100 THEN "00" \o DigitsOfNat(n)
  ELSE IF n < 1000 THEN "0" \o DigitsOfNat(n)
  ELSE DigitsOfNat(n)

\* str(Timestamp): "YYYY-MM-DD HH:MM:SS"
TimestampToStr(x) ==
  Pad4(x.y) \o "-" \o Pad2(x.m) \o "-" \o Pad2(x.d) \o " "
    \o Pad2(x.hh) \o ":" \o Pad2(x.mi) \o ":00"

\* index of the first occurrence of sep in s, 0 when there is none (str.find + 1)
FindFirst(s, sep) ==
  LET hits == {i \in 1..Len(s) : i + Len(sep) - 1 <= Len(s)
                                 /\ SubSeq(s, i, i + Len(sep) - 1) = sep}
  IN  IF hits = {} THEN 0 ELSE CHOOSE i \in hits : \A j \in hits : i <= j

\* s.split(sep)[0]
SplitFirst(s, sep) ==
  LET i == FindFirst(s, sep) IN IF i = 0 THEN s ELSE SubSeq(s, 1, i - 1)

(***************************************************************************)
(* The proleptic Gregorian calendar behind pandas' Timestamp.              *)
(***************************************************************************)
IsLeap(y) == y % 4 = 0 /\ (y % 100 # 0 \/ y % 400 = 0)

DaysInMonth(y, m) ==
  IF m = 2 THEN (IF IsLeap(y) THEN 29 ELSE 28)
  ELSE IF m \in {4, 6, 9, 11} THEN 30 ELSE 31

DaysBeforeYear(y) ==
  LET p == y - 1 IN p * 365 + (p \div 4) - (p \div 100) + (p \div 400)

RECURSIVE DaysBeforeMonth(_, _)
DaysBeforeMonth(y, m) ==
  IF m <= 1 THEN 0 ELSE DaysBeforeMonth(y, m - 1) + DaysInMonth(y, m - 1)

\* ordinal of a date, 0001-01-01 being day 1 (a Monday)
ymd2ord(y, m, d) == DaysBeforeYear(y) + DaysBeforeMonth(y, m) + d

\* ordinal of the Monday that starts ISO week 1 of the year
isoweek1monday(year) ==
  LET firstday == ymd2ord(year, 1, 1)
      firstweekday == (firstday + 6) % 7
      week1monday == firstday - firstweekday
  IN  IF firstweekday > 3 THEN week1monday + 7 ELSE week1monday

\* a faulty isocalendar_week: the week counted from January 1st, not ISO
isocalendar_week_of_year(d) ==
  ((ymd2ord(d.y, d.m, d.d) - ymd2ord(d.y, 1, 1)) \div 7) + 1

\* d.isocalendar().week
isocalendar_week(d) ==
  LET today == ymd2ord(d.y, d.m, d.d)
      week == (today - isoweek1monday(d.y)) \div 7
  IN  IF week < 0
        THEN ((today - isoweek1monday(d.y - 1)) \div 7) + 1
      ELSE IF week >= 52 /\ today >= isoweek1monday(d.y + 1)
        THEN 1
      ELSE week + 1

(***************************************************************************)
(* pd.to_datetime(x, errors="coerce").  Of the text forms pandas accepts,  *)
(* the ones modelled are "YYYY-MM-DD", "YYYY-MM-DD HH:MM:SS" and           *)
(* "YYYY-MM-DD HH:MM:SS.f+"; any other text is coerced to NaT, so the      *)
(* input sets below hold no text in another date format.                   *)
(***************************************************************************)
ValidDatePart(s) ==
  /\ Len(s) = 10
  /\ AllDigits(SubSeq(s, 1, 4)) /\ Ch(s, 5) = "-"
  /\ AllDigits(SubSeq(s, 6, 7)) /\ Ch(s, 8) = "-"
  /\ AllDigits(SubSeq(s, 9, 10))
  /\ NatOfDigits(SubSeq(s, 1, 4)) >= 1
  /\ NatOfDigits(SubSeq(s, 6, 7)) \in 1..12
  /\ NatOfDigits(SubSeq(s, 9, 10)) \in
       1..DaysInMonth(NatOfDigits(SubSeq(s, 1, 4)), NatOfDigits(SubSeq(s, 6, 7)))

ValidTimePart(s) ==
  /\ Len(s) >= 8
  /\ AllDigits(SubSeq(s, 1, 2)) /\ Ch(s, 3) = ":"
  /\ AllDigits(SubSeq(s, 4, 5)) /\ Ch(s, 6) = ":"
  /\ AllDigits(SubSeq(s, 7, 8))
  /\ NatOfDigits(SubSeq(s, 1, 2)) <= 23
  /\ NatOfDigits(SubSeq(s, 4, 5)) <= 59
  /\ NatOfDigits(SubSeq(s, 7, 8)) <= 59
  /\ (Len(s) > 8 => Ch(s, 9) = "." /\ AllDigits(SubSeq(s, 10, Len(s))))

ParseDatetime(s) ==
  IF Len(s) = 10 /\ ValidDatePart(s)
    THEN Timestamp(NatOfDigits(SubSeq(s, 1, 4)), NatOfDigits(SubSeq(s, 6, 7)),
                   NatOfDigits(SubSeq(s, 9, 10)), 0, 0)
  ELSE IF Len(s) >= 19 /\ ValidDatePart(SubSeq(s, 1, 10)) /\ Ch(s, 11) = " "
          /\ ValidTimePart(SubSeq(s, 12, Len(s)))
    THEN Timestamp(NatOfDigits(SubSeq(s, 1, 4)), NatOfDigits(SubSeq(s, 6, 7)),
                   NatOfDigits(SubSeq(s, 9, 10)),
                   NatOfDigits(SubSeq(s, 12, 13)), NatOfDigits(SubSeq(s, 15, 16)))
  ELSE NaT

to_datetime(x) ==
  CASE x.t = "ts" -> x
    [] x.t = "str" -> ParseDatetime(x.s)
    [] x.t = "int" -> IF x.n >= 0 THEN Timestamp(1970, 1, 1, 0, 0)
                                  ELSE Timestamp(1969, 12, 31, 23, 59)
    [] x.t = "float" -> IF x.tenths > -10 THEN Timestamp(1970, 1, 1, 0, 0)
                                          ELSE Timestamp(1969, 12, 31, 23, 59)
    [] OTHER -> NaT

\* Timestamp.normalize(): midnight of the same day
normalize(d) == Timestamp(d.y, d.m, d.d, 0, 0)

(***************************************************************************)
(* float(val) followed by int(): the text accepted is an optional sign,    *)
(* digits and an optional decimal part (the input sets hold no exponent,   *)
(* "inf" or "nan" text); the result is truncated towards zero.             *)
(***************************************************************************)
Unsigned(s) == IF s # "" /\ Ch(s, 1) \in {"+", "-"} THEN SubSeq(s, 2, Len(s)) ELSE s

IsDecimalText(s) ==
  LET u == Unsigned(strip(s))
      dot == FindFirst(u, ".")
      ip == IF dot = 0 THEN u ELSE SubSeq(u, 1, dot - 1)
      fp == IF dot = 0 THEN "" ELSE SubSeq(u, dot + 1, Len(u))
  IN  /\ (ip = "" \/ AllDigits(ip))
      /\ (fp = "" \/ AllDigits(fp))
      /\ (ip # "" \/ fp # "")

IntOfDecimalText(s) ==
  LET t == strip(s)
      u == Unsigned(t)
      dot == FindFirst(u, ".")
      ip == IF dot = 0 THEN u ELSE SubSeq(u, 1, dot - 1)
      mag == NatOfDigits(ip)
  IN  IF Ch(t, 1) = "-" THEN -mag ELSE mag

Trunc10(tenths) == IF tenths < 0 THEN -((-tenths) \div 10) ELSE tenths \div 10

(***************************************************************************)
(* Helpers (src/beko.py 15-116).                                           *)
(***************************************************************************)
to_str(x) ==
  IF isna(x) THEN ""
  ELSE IF x.t = "int" THEN strip(IntToStr(x.n))
  ELSE IF x.t = "bool" THEN strip(IntToStr(IF x.b THEN 1 ELSE 0))
  ELSE IF x.t = "float" /\ x.tenths % 10 = 0 THEN strip(IntToStr(Trunc10(x.tenths)))
  ELSE IF x.t = "float" THEN strip(FloatToStr(x.tenths))
  ELSE IF x.t = "ts" THEN strip(TimestampToStr(x))
  ELSE strip(x.s)

\* a faulty to_numeric: the try/except is missing, the exception escapes
to_numeric_uncaught(val) ==
  IF isna(val) THEN NaN
  ELSE CASE val.t = "int" -> Int_(val.n)
         [] val.t = "bool" -> Int_(IF val.b THEN 1 ELSE 0)
         [] val.t = "float" -> Int_(Trunc10(val.tenths))
         [] val.t = "str" -> IF IsDecimalText(val.s) THEN Int_(IntOfDecimalText(val.s))
                                                     ELSE Raised
         [] OTHER -> Raised

\* int(float(val)): raises ValueError on text that is no number, TypeError on a
\* timestamp
int_of_float(val) ==
  CASE val.t = "int" -> Int_(val.n)
    [] val.t = "bool" -> Int_(IF val.b THEN 1 ELSE 0)
    [] val.t = "float" -> Int_(Trunc10(val.tenths))
    [] val.t = "str" -> IF IsDecimalText(val.s) THEN Int_(IntOfDecimalText(val.s))
                                                ELSE Raised
    [] OTHER -> Raised

to_numeric(val) ==
  IF isna(val) THEN NaN
  ELSE LET r == int_of_float(val)
       IN  IF r = Raised THEN NaN ELSE r

to_mmddyyyy(val) ==
  IF isna(val) THEN NaT
  ELSE LET d == to_datetime(val) IN IF ~isna(d) THEN normalize(d) ELSE NaT

\* a faulty normalize_bool_to_01: "Y" is missing from the truthy tokens
normalize_bool_to_01_without_y(val) ==
  IF isna(val) THEN NaN
  ELSE IF val.t = "bool" THEN Int_(IF val.b THEN 1 ELSE 0)
  ELSE LET s == upper(to_str(val))
       IN  IF s \in {"TRUE", "T", "YES", "1"} THEN Int_(1)
           ELSE IF s \in {"FALSE", "F", "NO", "N", "0"} THEN Int_(0)
           ELSE NaN

normalize_bool_to_01(val) ==
  IF isna(val) THEN NaN
  ELSE IF val.t = "bool" THEN Int_(IF val.b THEN 1 ELSE 0)
  ELSE LET s == upper(to_str(val))
       IN  IF s \in {"TRUE", "T", "YES", "Y", "1"} THEN Int_(1)
           ELSE IF s \in {"FALSE", "F", "NO", "N", "0"} THEN Int_(0)
           ELSE NaN

\* a faulty derive_shipment_id: Bill of Lading takes precedence
derive_shipment_id_bol_first(order_number, bill_of_lading) ==
  LET on == to_str(order_number)
      bol == to_str(bill_of_lading)
  IN  IF bol # "" THEN bol ELSE on

derive_shipment_id(order_number, bill_of_lading) ==
  LET on == to_str(order_number)
      bol == to_str(bill_of_lading)
  IN  IF on # "" THEN on ELSE bol

\* a faulty derive_tracked_shipments: the tracking type is not upper-cased
derive_tracked_shipments_case_sensitive(is_tracked_01, tracking_type) ==
  LET tt == to_str(tracking_type)
      it == IF isna(is_tracked_01) THEN None ELSE Int_(is_tracked_01.n)
  IN  IF tt \in {"ELD", "APP", "DIRECT"}
        THEN (IF it = Int_(1) THEN "Tracked"
              ELSE IF it = Int_(0) THEN "Untracked"
              ELSE "")
      ELSE IF tt = "UNKNOWN"
        THEN (IF it = Int_(1) THEN "YMS Milestone"
              ELSE IF it = Int_(0) THEN "Untracked"
              ELSE "")
      ELSE IF it = Int_(1) THEN "Tracked"
      ELSE IF it = Int_(0) THEN "Untracked"
      ELSE ""

derive_tracked_shipments(is_tracked_01, tracking_type) ==
  LET tt == upper(to_str(tracking_type))
      it == IF isna(is_tracked_01) THEN None ELSE Int_(is_tracked_01.n)
  IN  IF tt \in {"ELD", "APP", "DIRECT"}
        THEN (IF it = Int_(1) THEN "Tracked"
              ELSE IF it = Int_(0) THEN "Untracked"
              ELSE "")
      ELSE IF tt = "UNKNOWN"
        THEN (IF it = Int_(1) THEN "YMS Milestone"
              ELSE IF it = Int_(0) THEN "Untracked"
              ELSE "")
      ELSE IF it = Int_(1) THEN "Tracked"
      ELSE IF it = Int_(0) THEN "Untracked"
      ELSE ""

first_datetime_from_window(window_val) ==
  LET s == to_str(window_val)
  IN  IF s = "" THEN NaT
      ELSE to_datetime(Str(strip(SplitFirst(s, "..."))))

iso_week_label(dt_val) ==
  IF isna(dt_val) THEN ""
  ELSE LET d == to_datetime(dt_val)
       IN  IF isna(d) THEN "" ELSE "Week " \o Pad2(isocalendar_week(d))

(***************************************************************************)
(* DataFrames: an ordered list of column names and a list of rows, each    *)
(* row a function from the column names to cells.                          *)
(***************************************************************************)
Range(q) == {q[i] : i \in 1..Len(q)}

Frame(cols, rows) == [columns |-> cols, rows |-> rows]

\* df[c]
Column(f, c) == [i \in 1..Len(f.rows) |-> f.rows[i][c]]

\* df[c] = vals: a new column is appended, an existing one is overwritten in place
SetColumn(f, c, vals) ==
  LET names == Range(f.columns) \cup {c}
      old == f.rows
  IN  Frame(IF c \in Range(f.columns) THEN f.columns ELSE Append(f.columns, c),
            [i \in 1..Len(old) |->
               [k \in names |-> IF k = c THEN vals[i] ELSE old[i][k]]])

\* df[cols]
Select(f, cols) ==
  LET names == Range(cols)
      old == f.rows
  IN  Frame(cols, [i \in 1..Len(old) |-> [k \in names |-> old[i][k]]])

\* df.head(n)
head(f, n) ==
  Frame(f.columns, SubSeq(f.rows, 1, IF Len(f.rows) < n THEN Len(f.rows) ELSE n))

(***************************************************************************)
(* Column lists of the main script (src/beko.py 131-210).                  *)
(***************************************************************************)
pickup_window_candidates ==
  << "Pickup Appointement Window (UTC)",
     "Pickup Appointment Window (UTC)",
     "Pickup Appointment Window (UTC) " >>

required == << "Order Number", "Bill of Lading", "Tracked", "Tracking Type" >>

numeric_cols == << "Tenant ID", "P44 CARRIER ID", "P44 Shipment ID" >>

date_cols ==
  << "Shipment Created (UTC)", "Tracking Window Start (UTC)", "Tracking Window End (UTC)" >>

desired_cols ==
  << "Sl. No", "Tenant Name", "Tenant ID", "Carrier Name", "P44 CARRIER ID", "P44 Shipment ID",
     "Bill of Lading", "Order Number", "Shipment ID", "IsTracked", "Tracked Shipments",
     "Tracking Type", "Tracking field", "Tracking Method", "Active Equipment ID",
     "Historical Equipment ID",
     "Pickup Name", "Pickup City State", "Pickup Country", "Pickup Region", "Week",
     "Pickup Appointement Window (UTC)",
     "Final Destination Name", "Final Destination City State", "Final Destination Country",
     "Delivery Appointement Window (UTC)",
     "Shipment Created (UTC)", "Tracking Window Start (UTC)", "Tracking Window End (UTC)",
     "Pickup Arrival Milestone (UTC)", "Pickup Departure Milestone (UTC)",
     "Final Destination Arrival Milestone (UTC)", "Final Destination Departure Milestone (UTC)",
     "# Of Milestones received / # Of Milestones expected",
     "# Updates Received", "# Updates Received < 10 mins",
     "Nb Intervals Expected", "Nb Intervals Observed",
     "Final Status Reason", "Tracking Error",
     "Milestone Error 1", "Milestone Error 2", "Milestone Error 3",
     "Attr1 Value", "Attr2 Name", "Attr2 Value", "Attr3 Name", "Attr3 Value",
     "Attr4 Name", "Attr4 Value", "Attr5 Name", "Attr5 Value",
     "Average Latency (min)" >>

\* st.dataframe(out_df.head(50))
PreviewRows == 50

(***************************************************************************)
(* The steps of the main script as functions on DataFrames.                *)
(***************************************************************************)
\* line 137: the first candidate spelling among the columns, else None
find_pickup_col(f) ==
  LET present == SelectSeq(pickup_window_candidates, LAMBDA c : c \in Range(f.columns))
  IN  IF present = << >> THEN None ELSE Str(Head(present))

\* a faulty missing_required: every required column is reported once one is absent
missing_required_all(f) ==
  IF \E c \in Range(required) : c \notin Range(f.columns) THEN required ELSE << >>

\* line 141: the required columns that are absent, in the declared order
missing_required(f) == SelectSeq(required, LAMBDA c : c \notin Range(f.columns))

\* lines 150-154
force_numeric(f) ==
  LET names == Range(f.columns)
      forced == Range(numeric_cols)
      old == f.rows
  IN  Frame(f.columns,
            [i \in 1..Len(old) |->
               [k \in names |-> IF k \in forced THEN to_numeric(old[i][k]) ELSE old[i][k]]])

\* lines 156-164
force_dates(f) ==
  LET names == Range(f.columns)
      forced == Range(date_cols)
      old == f.rows
  IN  Frame(f.columns,
            [i \in 1..Len(old) |->
               [k \in names |-> IF k \in forced THEN to_mmddyyyy(old[i][k]) ELSE old[i][k]]])

\* lines 166-178
derive_columns(f, pcol) ==
  LET f1 == SetColumn(f, "Shipment ID",
              [i \in 1..Len(f.rows) |->
                 Str(derive_shipment_id(f.rows[i]["Order Number"],
                                        f.rows[i]["Bill of Lading"]))])
      f2 == SetColumn(f1, "IsTracked",
              [i \in 1..Len(f1.rows) |-> normalize_bool_to_01(f1.rows[i]["Tracked"])])
      f3 == SetColumn(f2, "Tracked Shipments",
              [i \in 1..Len(f2.rows) |->
                 Str(derive_tracked_shipments(f2.rows[i]["IsTracked"],
                                              f2.rows[i]["Tracking Type"]))])
      f4 == SetColumn(f3, "Tracking field",
              [i \in 1..Len(f3.rows) |->
                 Str(to_str(f3.rows[i]["Tracking Type"]) \o " - "
                       \o to_str(f3.rows[i]["Tracked Shipments"]))])
      pickup_start_dt == [i \in 1..Len(f4.rows) |->
                            first_datetime_from_window(f4.rows[i][pcol.s])]
  IN  SetColumn(f4, "Week",
        [i \in 1..Len(f4.rows) |-> Str(iso_week_label(pickup_start_dt[i]))])

\* a faulty tracked_like_mask: "YMS Milestone" is missing from the list
tracked_like_mask_tracked_only(f) ==
  [i \in 1..Len(f.rows) |-> f.rows[i]["Tracked Shipments"] \in {Str("Tracked")}]

\* line 183
tracked_like_mask(f) ==
  [i \in 1..Len(f.rows) |->
     f.rows[i]["Tracked Shipments"] \in {Str("Tracked"), Str("YMS Milestone")}]

\* a faulty tracking_error_update: one tracked-like row forces every row
tracking_error_update_any_row(f) ==
  LET g == IF "Tracking Error" \notin Range(f.columns)
             THEN SetColumn(f, "Tracking Error", [i \in 1..Len(f.rows) |-> Str("")])
             ELSE f
      any == \E j \in 1..Len(g.rows) : g.rows[j]["Tracked Shipments"] \in
                                         {Str("Tracked"), Str("YMS Milestone")}
  IN  SetColumn(g, "Tracking Error",
        [i \in 1..Len(g.rows) |->
           IF any THEN Str("Tracked") ELSE g.rows[i]["Tracking Error"]])

\* a faulty tracking_error_update: the rows that are not tracked-like are blanked
tracking_error_update_blank_others(f) ==
  SetColumn(f, "Tracking Error",
    [i \in 1..Len(f.rows) |->
       IF f.rows[i]["Tracked Shipments"] \in {Str("Tracked"), Str("YMS Milestone")}
         THEN Str("Tracked") ELSE Str("")])

\* lines 181-184
tracking_error_update(f) ==
  LET g == IF "Tracking Error" \notin Range(f.columns)
             THEN SetColumn(f, "Tracking Error", [i \in 1..Len(f.rows) |-> Str("")])
             ELSE f
      mask == tracked_like_mask(g)
  IN  SetColumn(g, "Tracking Error",
        [i \in 1..Len(g.rows) |->
           IF mask[i] THEN Str("Tracked") ELSE g.rows[i]["Tracking Error"]])

\* lines 187-188
pickup_header(f, pcol) ==
  IF "Pickup Appointement Window (UTC)" \notin Range(f.columns)
    THEN SetColumn(f, "Pickup Appointement Window (UTC)", Column(f, pcol.s))
    ELSE f

\* lines 213-215: every desired column the frame lacks is created holding "",
\* appended in the order of desired_cols
fill_missing(f) ==
  LET absent == SelectSeq(desired_cols, LAMBDA c : c \notin Range(f.columns))
      present == Range(f.columns)
      names == present \cup Range(absent)
      old == f.rows
  IN  Frame(f.columns \o absent,
            [i \in 1..Len(old) |->
               [k \in names |-> IF k \in present THEN old[i][k] ELSE Str("")]])

\* a faulty project: the frame is copied without selecting the desired columns
project_all_columns(f) == Select(f, f.columns)

\* line 217
project(f) == Select(f, desired_cols)

\* lines 118-123: one sheet, the header row then the records, no index column
to_excel_bytes(f, sheet_name) ==
  [sheet_name |-> sheet_name,
   datetime_format |-> "mm/dd/yyyy",
   header |-> f.columns,
   cells |-> [i \in 1..Len(f.rows) |-> [j \in 1..Len(f.columns) |-> f.rows[i][f.columns[j]]]]]

\* line 230
blank_week_count(f) == Cardinality({i \in 1..Len(f.rows) : to_str(f.rows[i]["Week"]) = ""})

\* line 231
mask_sum(mask) == Cardinality({i \in DOMAIN mask : mask[i]})

(***************************************************************************)
(* Uploaded tables.  Two families are enumerated:                          *)
(*  - every subset of InputHeaders (kept in the file's own column order,   *)
(*    which is not the output order) with up to MaxRows rows taken from    *)
(*    two template records;                                                *)
(*  - the required columns plus one pickup-window column, with and without *)
(*    a Tracking Error column, with up to MaxRows rows whose Tracked,      *)
(*    Tracking Type and Tracking Error cells range over CellChoices.       *)
(***************************************************************************)
InputHeaders ==
  << "Tracking Error", "Shipment Type", "Tracked", "Tracking Type", "Order Number",
     "Bill of Lading", "Tenant ID", "Shipment Created (UTC)",
     "Pickup Appointment Window (UTC) ", "Pickup Appointment Window (UTC)",
     "Pickup Appointement Window (UTC)" >>

HeaderChoices ==
  {SelectSeq(InputHeaders, LAMBDA c : c \in S) : S \in SUBSET Range(InputHeaders)}

TemplateA(c) ==
  CASE c = "Tracking Error" -> Str("Driver Delay")
    [] c = "Shipment Type" -> Str("LTL")
    [] c = "Tracked" -> Str("Y")
    [] c = "Tracking Type" -> Str("unknown")
    [] c = "Order Number" -> Str("")
    [] c = "Bill of Lading" -> Str("BOL123")
    [] c = "Tenant ID" -> Str("12.7")
    [] c = "Shipment Created (UTC)" -> Str("2025-11-05 10:15:00")
    [] c = "Pickup Appointment Window (UTC) " ->
         Str("2025-11-05 10:00:00.000...2025-11-05 11:30:00.000")
    [] c = "Pickup Appointment Window (UTC)" ->
         Str("2025-12-29 10:00:00.000...2025-12-29 11:30:00.000")
    [] c = "Pickup Appointement Window (UTC)" ->
         Str("2025-09-30 10:00:00.000...2025-09-30 11:30:00.000")

TemplateB(c) ==
  CASE c = "Tracking Error" -> NaN
    [] c = "Shipment Type" -> NaN
    [] c = "Tracked" -> Bool(FALSE)
    [] c = "Tracking Type" -> Str("ELD")
    [] c = "Order Number" -> Float(1000)
    [] c = "Bill of Lading" -> NaN
    [] c = "Tenant ID" -> Str("n/a")
    [] c = "Shipment Created (UTC)" -> Timestamp(2026, 1, 4, 23, 59)
    [] c = "Pickup Appointment Window (UTC) " -> NaN
    [] c = "Pickup Appointment Window (UTC)" -> Str("TBD")
    [] c = "Pickup Appointement Window (UTC)" -> Str("...2025-09-30 11:30:00.000")

TemplateRows(cols) ==
  { [c \in Range(cols) |-> TemplateA(c)], [c \in Range(cols) |-> TemplateB(c)] }

CellColumns ==
  << "Tracked", "Tracking Type", "Order Number", "Bill of Lading",
     "Pickup Appointment Window (UTC)" >>

CellChoices(c) ==
  CASE c = "Tracked" -> {Str("Y"), Str("N"), NaN, Str("maybe")}
    [] c = "Tracking Type" -> {Str("unknown"), Str("ELD")}
    [] c = "Order Number" -> {Str("")}
    [] c = "Bill of Lading" -> {Str("BOL123")}
    [] c = "Pickup Appointment Window (UTC)" ->
         {Str("2025-09-30 10:00:00.000...2025-09-30 11:30:00.000")}
    [] c = "Tracking Error" -> {NaN, Str("Driver Delay")}

CellRow(cols, tracked, tracking_type, window, tracking_error) ==
  [c \in Range(cols) |->
     CASE c = "Tracked" -> tracked
       [] c = "Tracking Type" -> tracking_type
       [] c = "Pickup Appointment Window (UTC)" -> window
       [] c = "Tracking Error" -> tracking_error
       [] OTHER -> CHOOSE v \in CellChoices(c) : TRUE]

CellRows(cols) ==
  {CellRow(cols, a, b, w, e) :
     a \in CellChoices("Tracked"), b \in CellChoices("Tracking Type"),
     w \in CellChoices("Pickup Appointment Window (UTC)"),
     e \in CellChoices("Tracking Error")}

Tables(rowset) == UNION {[1..n -> rowset] : n \in 0..MaxRows}

\* raw_file is one of the uploads described above, or None
Uploaded(f) ==
  \/ f = None
  \/ \E cols \in HeaderChoices : \E rows \in Tables(TemplateRows(cols)) :
       f = Frame(cols, rows)
  \/ \E rows \in Tables(CellRows(CellColumns)) : f = Frame(CellColumns, rows)
  \/ \E rows \in Tables(CellRows(<<"Tracking Error">> \o CellColumns)) :
       f = Frame(<<"Tracking Error">> \o CellColumns, rows)

(***************************************************************************)
(* The run of the script (src/beko.py 128-233).                            *)
(***************************************************************************)
NoCall == [fn |-> "none", args |-> << >>, ret |-> None]

Init ==
  /\ pc = "start"
  /\ Uploaded(raw_file)
  /\ df = None
  /\ pickup_col = None
  /\ mask_tracked_like = None
  /\ out_df = None
  /\ ui = << >>
  /\ call = NoCall

\* lines 232-233: nothing uploaded
NoFile ==
  /\ pc = "start"
  /\ raw_file = None
  /\ ui' = Append(ui, [kind |-> "info", text |-> "Upload the Raw File to continue."])
  /\ pc' = "end"
  /\ UNCHANGED <<raw_file, df, pickup_col, mask_tracked_like, out_df, call>>

\* lines 128-129
ReadExcel ==
  /\ pc = "start"
  /\ raw_file # None
  /\ df' = raw_file
  /\ pc' = "validate"
  /\ UNCHANGED <<raw_file, pickup_col, mask_tracked_like, out_df, ui, call>>

\* lines 137-144: a required column is absent
ValidateMissing ==
  /\ pc = "validate"
  /\ missing_required(df) # << >>
  /\ pickup_col' = find_pickup_col(df)
  /\ ui' = Append(ui, [kind |-> "error",
                       text |-> "Raw file missing required columns: ",
                       missing |-> missing_required(df)])
  /\ pc' = "stopped"
  /\ UNCHANGED <<raw_file, df, mask_tracked_like, out_df, call>>

\* lines 145-148: no pickup-window spelling is present
ValidateNoPickup ==
  /\ pc = "validate"
  /\ missing_required(df) = << >>
  /\ find_pickup_col(df) = None
  /\ pickup_col' = None
  /\ ui' = Append(ui, [kind |-> "error",
                       text |-> "Could not find Pickup Appointment Window column. Expected one of: ",
                       expected |-> pickup_window_candidates])
  /\ pc' = "stopped"
  /\ UNCHANGED <<raw_file, df, mask_tracked_like, out_df, call>>

ValidateOk ==
  /\ pc = "validate"
  /\ missing_required(df) = << >>
  /\ find_pickup_col(df) # None
  /\ pickup_col' = find_pickup_col(df)
  /\ pc' = "numeric"
  /\ UNCHANGED <<raw_file, df, mask_tracked_like, out_df, ui, call>>

\* an exception that escaped a helper while the column was rebuilt
raises(f) == \E i \in 1..Len(f.rows) : \E k \in Range(f.columns) : f.rows[i][k] = Raised

\* lines 150-154; an uncaught exception ends the run with Streamlit's traceback
ForceNumeric ==
  /\ pc = "numeric"
  /\ IF raises(force_numeric(df))
       THEN /\ pc' = "crashed"
            /\ ui' = Append(ui, [kind |-> "exception"])
            /\ df' = df
       ELSE /\ pc' = "dates"
            /\ ui' = ui
            /\ df' = force_numeric(df)
  /\ UNCHANGED <<raw_file, pickup_col, mask_tracked_like, out_df, call>>

ForceDates ==
  /\ pc = "dates"
  /\ df' = force_dates(df)
  /\ pc' = "derive"
  /\ UNCHANGED <<raw_file, pickup_col, mask_tracked_like, out_df, ui, call>>

DeriveColumns ==
  /\ pc = "derive"
  /\ df' = derive_columns(df, pickup_col)
  /\ pc' = "tracking_error"
  /\ UNCHANGED <<raw_file, pickup_col, mask_tracked_like, out_df, ui, call>>

TrackingErrorUpdate ==
  /\ pc = "tracking_error"
  /\ mask_tracked_like' = tracked_like_mask(df)
  /\ df' = tracking_error_update(df)
  /\ pc' = "pickup_header"
  /\ UNCHANGED <<raw_file, pickup_col, out_df, ui, call>>

PickupHeader ==
  /\ pc = "pickup_header"
  /\ df' = pickup_header(df, pickup_col)
  /\ pc' = "project"
  /\ UNCHANGED <<raw_file, pickup_col, mask_tracked_like, out_df, ui, call>>

Project ==
  /\ pc = "project"
  /\ df' = fill_missing(df)
  /\ out_df' = project(fill_missing(df))
  /\ pc' = "preview"
  /\ UNCHANGED <<raw_file, pickup_col, mask_tracked_like, ui, call>>

\* lines 219-220
Preview ==
  /\ pc = "preview"
  /\ ui' = Append(ui, [kind |-> "dataframe", data |-> head(out_df, PreviewRows)])
  /\ pc' = "download"
  /\ UNCHANGED <<raw_file, df, pickup_col, mask_tracked_like, out_df, call>>

\* lines 222-227
Download ==
  /\ pc = "download"
  /\ ui' = Append(ui, [kind |-> "download_button",
                       data |-> to_excel_bytes(out_df, "Raw File"),
                       file_name |-> "Raw_File_Enriched_Reordered_No_Shipment_Type.xlsx"])
  /\ pc' = "quick_checks"
  /\ UNCHANGED <<raw_file, df, pickup_col, mask_tracked_like, out_df, call>>

\* lines 229-231
QuickChecks ==
  /\ pc = "quick_checks"
  /\ ui' = ui \o << [kind |-> "write", text |-> "Rows with Week blank:",
                    n |-> blank_week_count(out_df)],
                   [kind |-> "write", text |-> "Rows where Tracking Error forced to 'Tracked':",
                    n |-> mask_sum(mask_tracked_like)] >>
  /\ pc' = "end"
  /\ UNCHANGED <<raw_file, df, pickup_col, mask_tracked_like, out_df, call>>

Next ==
  \/ NoFile
  \/ ReadExcel
  \/ ValidateMissing
  \/ ValidateNoPickup
  \/ ValidateOk
  \/ ForceNumeric
  \/ ForceDates
  \/ DeriveColumns
  \/ TrackingErrorUpdate
  \/ PickupHeader
  \/ Project
  \/ Preview
  \/ Download
  \/ QuickChecks

Spec == Init /\ [][Next]_vars

(***************************************************************************)
(* Direct calls of the helpers, on arguments drawn from bounded sets.      *)
(***************************************************************************)
Years == 2020..(2020 + MaxYears)

Dates == UNION {{[y |-> yy, m |-> mm, d |-> dd] : dd \in 1..DaysInMonth(yy, mm)} :
                  yy \in Years, mm \in 1..12}

DateText(date) == Pad4(date.y) \o "-" \o Pad2(date.m) \o "-" \o Pad2(date.d)

\* a pickup window that starts on the given date and ends the same day
WindowOn(date) ==
  Str(DateText(date) \o " 10:00:00.000..." \o DateText(date) \o " 11:30:00.000")

\* windows with no start timestamp: missing, empty, blank, free text, an empty or
\* impossible left-hand side
AbsentWindows ==
  { NaN, Str(""), Str("   "), Str("TBD"), Str("...2025-09-30 11:30:00.000"),
    Str("TBD...2025-09-30 11:30:00.000"),
    Str("2025-02-30 10:00:00.000...2025-03-01 11:30:00.000") }

\* other spellings of a window that starts on 2025-09-30
Sep30Windows ==
  { Str("2025-09-30"), Str("  2025-09-30 10:00:00 ... 2025-10-06 10:00:00  "),
    Str("2025-09-30 23:59:59.999...TBD"), Timestamp(2025, 9, 30, 10, 0),
    Str("2025-09-30 10:00:00.000...2025-10-01 10:00:00.000...2025-10-07 10:00:00.000") }

WindowInputs == AbsentWindows \cup Sep30Windows \cup {WindowOn(date) : date \in Dates}

IdInputs ==
  { NaN, Str(""), Str("   "), Str(" A1 "), Str("BOL123"), Str("0"), Str("00123"),
    Int_(0), Int_(100), Int_(-7), Float(1000), Float(15), Float(0), Bool(TRUE) }

TypeInputs ==
  { NaN, Str(""), Str("  "), Str("ELD"), Str("eld"), Str(" App "), Str("Direct"),
    Str("UNKNOWN"), Str("unknown"), Str(" Unknown\t"), Str("GPS"), Str("UNKNOWN X"),
    Str("E L D"), Int_(5) }

TrackedInputs ==
  { NaN, Bool(TRUE), Bool(FALSE), Str("TRUE"), Str("true"), Str("T"), Str("t"), Str("YES"),
    Str("Yes"), Str(" y "), Str("Y"), Str("1"), Int_(1), Float(10),
    Str("FALSE"), Str("False"), Str("f"), Str("NO"), Str("no"), Str("N"), Str(" n"),
    Str("0"), Int_(0), Float(0),
    Str(""), Str("maybe"), Str("2"), Int_(2), Float(5), Str("YES!"), Str("Y N"), Str("-1") }

IsTrackedInputs == {Int_(1), Int_(0), NaN}

NumericInputs ==
  { NaN, Int_(12), Int_(-3), Float(127), Float(-127), Float(-5), Bool(TRUE), Str("12"),
    Str(" 12.7 "), Str("-12.7"), Str("+4"), Str(".5"), Str("5."), Str("."), Str(""),
    Str("n/a"), Str("12 7"), Str("1.2.3"), Str("--1"), Timestamp(2025, 9, 30, 10, 0) }

DateCellInputs ==
  { NaN, NaT, Str("2025-11-05 10:15:00"), Str("2025-11-05"), Str("2024-02-29 23:59:59.999"),
    Str("2025-02-29"), Str("TBD"), Str(""), Timestamp(2026, 1, 4, 23, 59), Int_(0), Int_(5) }

Pending(fn, args) == [fn |-> fn, args |-> args, ret |-> None]

InitHelpers ==
  /\ pc = "helpers"
  /\ raw_file = None
  /\ df = None
  /\ pickup_col = None
  /\ mask_tracked_like = None
  /\ out_df = None
  /\ ui = << >>
  /\ \/ \E x \in IdInputs \cup TypeInputs \cup NumericInputs : call = Pending("to_str", <<x>>)
     \/ \E x \in NumericInputs : call = Pending("to_numeric", <<x>>)
     \/ \E x \in DateCellInputs : call = Pending("to_mmddyyyy", <<x>>)
     \/ \E x \in TrackedInputs : call = Pending("normalize_bool_to_01", <<x>>)
     \/ \E on \in IdInputs, bol \in IdInputs : call = Pending("derive_shipment_id", <<on, bol>>)
     \/ \E it \in IsTrackedInputs, tt \in TypeInputs :
          call = Pending("derive_tracked_shipments", <<it, tt>>)
     \/ \E w \in WindowInputs : call = Pending("week", <<w>>)

CallToStr ==
  /\ pc = "helpers" /\ call.fn = "to_str"
  /\ call' = [call EXCEPT !.ret = Str(to_str(call.args[1]))]
  /\ pc' = "returned"
  /\ UNCHANGED <<raw_file, df, pickup_col, mask_tracked_like, out_df, ui>>

CallToNumeric ==
  /\ pc = "helpers" /\ call.fn = "to_numeric"
  /\ call' = [call EXCEPT !.ret = to_numeric(call.args[1])]
  /\ pc' = "returned"
  /\ UNCHANGED <<raw_file, df, pickup_col, mask_tracked_like, out_df, ui>>

CallToMmddyyyy ==
  /\ pc = "helpers" /\ call.fn = "to_mmddyyyy"
  /\ call' = [call EXCEPT !.ret = to_mmddyyyy(call.args[1])]
  /\ pc' = "returned"
  /\ UNCHANGED <<raw_file, df, pickup_col, mask_tracked_like, out_df, ui>>

CallNormalizeBool ==
  /\ pc = "helpers" /\ call.fn = "normalize_bool_to_01"
  /\ call' = [call EXCEPT !.ret = normalize_bool_to_01(call.args[1])]
  /\ pc' = "returned"
  /\ UNCHANGED <<raw_file, df, pickup_col, mask_tracked_like, out_df, ui>>

CallDeriveShipmentId ==
  /\ pc = "helpers" /\ call.fn = "derive_shipment_id"
  /\ call' = [call EXCEPT !.ret = Str(derive_shipment_id(call.args[1], call.args[2]))]
  /\ pc' = "returned"
  /\ UNCHANGED <<raw_file, df, pickup_col, mask_tracked_like, out_df, ui>>

CallDeriveTrackedShipments ==
  /\ pc = "helpers" /\ call.fn = "derive_tracked_shipments"
  /\ call' = [call EXCEPT !.ret = Str(derive_tracked_shipments(call.args[1], call.args[2]))]
  /\ pc' = "returned"
  /\ UNCHANGED <<raw_file, df, pickup_col, mask_tracked_like, out_df, ui>>

\* lines 177-178: the Week of one pickup-window cell
CallWeek ==
  /\ pc = "helpers" /\ call.fn = "week"
  /\ call' = [call EXCEPT !.ret =
                 Str(iso_week_label(first_datetime_from_window(call.args[1])))]
  /\ pc' = "returned"
  /\ UNCHANGED <<raw_file, df, pickup_col, mask_tracked_like, out_df, ui>>

NextHelpers ==
  \/ CallToStr
  \/ CallToNumeric
  \/ CallToMmddyyyy
  \/ CallNormalizeBool
  \/ CallDeriveShipmentId
  \/ CallDeriveTrackedShipments
  \/ CallWeek

SpecHelpers == InitHelpers /\ [][NextHelpers]_vars

(***************************************************************************)
(* Properties of the run.                                                  *)
(***************************************************************************)
Emitted == out_df # None
InputHas(c) == c \in Range(raw_file.columns)
Records == 1..Len(raw_file.rows)
TrackedLike == {Str("Tracked"), Str("YMS Milestone")}

\* C1: after a run that passes validation every output record whose Tracked
\* Shipments is "Tracked" or "YMS Milestone" has Tracking Error "Tracked", whatever
\* the input held in Tracking Error and whether or not it had the column; applying
\* the override again changes nothing; the record {Order Number "", Bill of Lading
\* "BOL123", Tracked "Y", Tracking Type "unknown"} ends with Shipment ID "BOL123",
\* Tracked Shipments "YMS Milestone" and Tracking Error "Tracked".
C1_TrackedLikeForcesTrackingError ==
  /\ Emitted =>
       \A i \in 1..Len(out_df.rows) :
         /\ out_df.rows[i]["Tracked Shipments"] \in TrackedLike
              => out_df.rows[i]["Tracking Error"] = Str("Tracked")
         /\ ( /\ raw_file.rows[i]["Order Number"] = Str("")
              /\ raw_file.rows[i]["Bill of Lading"] = Str("BOL123")
              /\ raw_file.rows[i]["Tracked"] = Str("Y")
              /\ raw_file.rows[i]["Tracking Type"] = Str("unknown") )
              => /\ out_df.rows[i]["Shipment ID"] = Str("BOL123")
                 /\ out_df.rows[i]["Tracked Shipments"] = Str("YMS Milestone")
                 /\ out_df.rows[i]["Tracking Error"] = Str("Tracked")
  /\ (df # None /\ pc \in {"pickup_header", "project", "preview", "download",
                            "quick_checks", "end"})
       => tracking_error_update(df) = df

\* C1 witness: a finished run whose input carried "Driver Delay" in Tracking Error
\* on the BOL123 record, which came out as YMS Milestone / "Tracked".
C1_Witness ==
  /\ pc = "end" /\ Emitted /\ InputHas("Tracking Error")
  /\ \E i \in Records :
       /\ raw_file.rows[i]["Tracking Error"] = Str("Driver Delay")
       /\ raw_file.rows[i]["Order Number"] = Str("")
       /\ raw_file.rows[i]["Bill of Lading"] = Str("BOL123")
       /\ raw_file.rows[i]["Tracked"] = Str("Y")
       /\ raw_file.rows[i]["Tracking Type"] = Str("unknown")
       /\ out_df.rows[i]["Tracked Shipments"] = Str("YMS Milestone")
       /\ out_df.rows[i]["Tracking Error"] = Str("Tracked")

\* the columns the script itself writes before the projection
WrittenColumns ==
  { "Shipment ID", "IsTracked", "Tracked Shipments", "Tracking field", "Week",
    "Tracking Error", "Pickup Appointement Window (UTC)" }

\* C4: for every input that passes validation, whatever optional and extra columns
\* it has, the output has exactly the columns of desired_cols in that order; every
\* listed column neither in the input nor derived holds "" in every record; columns
\* outside the list are dropped; projecting the output again yields the same output.
C4_OutputSchema ==
  Emitted =>
    /\ out_df.columns = desired_cols
    /\ Len(out_df.rows) = Len(raw_file.rows)
    /\ \A i \in 1..Len(out_df.rows) :
         /\ DOMAIN out_df.rows[i] = Range(desired_cols)
         /\ \A c \in Range(desired_cols) :
              (~InputHas(c) /\ c \notin WrittenColumns) => out_df.rows[i][c] = Str("")
    /\ \A c \in Range(raw_file.columns) :
         c \notin Range(desired_cols) => c \notin Range(out_df.columns)
    /\ project(fill_missing(out_df)) = out_df
    /\ \A k \in 1..Len(ui) :
         ui[k].kind = "download_button" => ui[k].data.header = desired_cols

\* C4 witness: a finished run on records with an extra column (Shipment Type) and
\* without the optional Tenant ID column.
C4_Witness ==
  /\ pc = "end" /\ Emitted
  /\ InputHas("Shipment Type") /\ ~InputHas("Tenant ID")
  /\ Len(out_df.rows) >= 1
  /\ out_df.rows[1]["Tenant ID"] = Str("")

RequiredNames == << "Order Number", "Bill of Lading", "Tracked", "Tracking Type" >>
AbsentRequired == SelectSeq(RequiredNames, LAMBDA c : ~InputHas(c))
NoPickupSpelling ==
  /\ ~InputHas("Pickup Appointement Window (UTC)")
  /\ ~InputHas("Pickup Appointment Window (UTC)")
  /\ ~InputHas("Pickup Appointment Window (UTC) ")

\* C5: if the input lacks a required column or has none of the three pickup-window
\* spellings, the run stops in an error state before any derivation, preview,
\* download or summary; the reported list is exactly the required columns absent
\* from the input, in the declared order; nothing is emitted after the error.
C5_ValidationStopsTheRun ==
  /\ []( (raw_file # None /\ pc \notin {"start", "validate"}
            /\ (AbsentRequired # << >> \/ NoPickupSpelling))
          => /\ pc = "stopped"
             /\ df = raw_file
             /\ out_df = None
             /\ Len(ui) = 1 /\ ui[1].kind = "error"
             /\ AbsentRequired # << >> => ui[1].missing = AbsentRequired )
  /\ []( pc = "stopped" => (AbsentRequired # << >> \/ NoPickupSpelling) )
  /\ [][pc = "stopped" => (pc' = "stopped" /\ ui' = ui /\ out_df' = out_df /\ df' = df)]_vars

\* C5 witness: a run stopped on an input lacking Bill of Lading and Tracking Type.
C5_Witness ==
  /\ pc = "stopped"
  /\ Len(raw_file.rows) >= 1
  /\ ui[1].missing = << "Bill of Lading", "Tracking Type" >>

\* Tracked cells of the uploaded tables by the token they hold
TruthyCells == {Str("Y")}
FalsyCells == {Str("N"), Bool(FALSE)}

\* C6 as stated: for every output record, IsTracked is 1 if Tracked Shipments is
\* "Tracked" and 0 otherwise.
C6_AsStated ==
  Emitted =>
    \A i \in 1..Len(out_df.rows) :
      out_df.rows[i]["IsTracked"] =
        (IF out_df.rows[i]["Tracked Shipments"] = Str("Tracked") THEN Int_(1) ELSE Int_(0))

\* C6 amended: for every output record, IsTracked is the boolean normalisation of
\* the record's Tracked cell (1 for a truthy token, 0 for a falsy one, absent
\* otherwise), so it is 1 when Tracked Shipments is "Tracked" or "YMS Milestone",
\* 0 when it is "Untracked" and absent when it is "".
C6_IsTrackedFollowsTracked ==
  Emitted =>
    \A i \in 1..Len(out_df.rows) :
      LET tracked == raw_file.rows[i]["Tracked"]
          flag == out_df.rows[i]["IsTracked"]
          label == out_df.rows[i]["Tracked Shipments"]
      IN  /\ tracked \in TruthyCells => flag = Int_(1)
          /\ tracked \in FalsyCells => flag = Int_(0)
          /\ tracked \notin TruthyCells \cup FalsyCells => flag = NaN
          /\ flag = Int_(1) <=> label \in TrackedLike
          /\ flag = Int_(0) <=> label = Str("Untracked")
          /\ flag = NaN <=> label = Str("")

\* C6 witness: a finished run holding a YMS Milestone record with IsTracked 1 and a
\* record with an absent IsTracked.
C6_Witness ==
  /\ pc = "end" /\ Emitted
  /\ \E i, j \in 1..Len(out_df.rows) :
       /\ out_df.rows[i]["Tracked Shipments"] = Str("YMS Milestone")
       /\ out_df.rows[i]["IsTracked"] = Int_(1)
       /\ out_df.rows[j]["Tracked Shipments"] = Str("")
       /\ out_df.rows[j]["IsTracked"] = NaN

\* Pickup-window cells of the uploaded tables with no parsable start timestamp
UnparsableWindows == {NaN, Str("TBD"), Str("...2025-09-30 11:30:00.000")}

\* the positions of the run after validation has passed
Validated ==
  {"numeric", "dates", "derive", "tracking_error", "pickup_header", "project",
   "preview", "download", "quick_checks"}

enrich(f) ==
  LET pcol == find_pickup_col(f)
  IN  project(fill_missing(pickup_header(tracking_error_update(
        derive_columns(force_dates(force_numeric(f)), pcol)), pcol)))

\* the reorderings of n records
Reorderings(n) == {p \in [1..n -> 1..n] : \A i, j \in 1..n : p[i] = p[j] => i = j}

\* C9: every derived field of an output record is a function of that record's own
\* input cells and of the table's headers only: a record gets the output it would
\* get as the only record of a table with the same headers, and permuting the input
\* records permutes the output records the same way.
C9_RecordsAreIndependent ==
  (pc = "end" /\ Emitted) =>
    /\ \A i \in 1..Len(raw_file.rows) :
         enrich(Frame(raw_file.columns, << raw_file.rows[i] >>)).rows = << out_df.rows[i] >>
    /\ \A p \in Reorderings(Len(raw_file.rows)) :
         enrich(Frame(raw_file.columns,
                      [i \in 1..Len(raw_file.rows) |-> raw_file.rows[p[i]]])).rows
           = [i \in 1..Len(raw_file.rows) |-> out_df.rows[p[i]]]

\* C9 witness: a finished run on two different records, one tracked-like and one not.
C9_Witness ==
  /\ pc = "end" /\ Emitted /\ Len(out_df.rows) = 2
  /\ raw_file.rows[1] # raw_file.rows[2]
  /\ out_df.rows[1]["Tracked Shipments"] \in TrackedLike
  /\ out_df.rows[2]["Tracked Shipments"] = Str("Untracked")
  /\ out_df.rows[1]["Tracking Error"] # out_df.rows[2]["Tracking Error"]

\* C10: for every record whose Tracked Shipments is "Untracked" or "" the output
\* Tracking Error is the input's Tracking Error value when the input has the column
\* and "" when it does not; no step other than the override creates or writes the
\* Tracking Error column.
C10_OverrideLeavesOthersAlone ==
  /\ []( Emitted =>
           \A i \in 1..Len(out_df.rows) :
             out_df.rows[i]["Tracked Shipments"] \in {Str("Untracked"), Str("")}
               => out_df.rows[i]["Tracking Error"] =
                    (IF InputHas("Tracking Error") THEN raw_file.rows[i]["Tracking Error"]
                                                   ELSE Str("")) )
  /\ [][ (df # None /\ pc # "tracking_error")
           => /\ "Tracking Error" \in Range(df'.columns) <=> "Tracking Error" \in Range(df.columns)
              /\ "Tracking Error" \in Range(df.columns)
                   => Column(df', "Tracking Error") = Column(df, "Tracking Error") ]_vars

\* C10 witness: a finished run that kept the input's "Driver Delay" on an Untracked
\* record.
C10_Witness ==
  /\ pc = "end" /\ Emitted /\ InputHas("Tracking Error")
  /\ \E i \in 1..Len(out_df.rows) :
       /\ out_df.rows[i]["Tracked Shipments"] = Str("Untracked")
       /\ raw_file.rows[i]["Tracking Error"] = Str("Driver Delay")
       /\ out_df.rows[i]["Tracking Error"] = Str("Driver Delay")

(***************************************************************************)
(* Properties of the helpers, over the direct calls.                       *)
(***************************************************************************)
ReturnedFrom(fn) == pc = "returned" /\ call.fn = fn

\* Tracking Type cells by what they read once trimmed and upper-cased
TelematicsTypes == {Str("ELD"), Str("eld"), Str(" App "), Str("Direct")}
UnknownTypes == {Str("UNKNOWN"), Str("unknown"), Str(" Unknown\t")}

\* C2: derive_tracked_shipments implements the decision table for every tracked
\* value in {1, 0, absent} and tracking type (trimmed, upper-cased): tracked=1 gives
\* "Tracked" for ELD, APP, DIRECT and for any other or blank type, and "YMS
\* Milestone" exactly when the type is UNKNOWN; tracked=0 gives "Untracked" and an
\* absent tracked gives "" for every type; no other label is produced.
C2_DecisionTable ==
  ReturnedFrom("derive_tracked_shipments") =>
    LET it == call.args[1]
        tt == call.args[2]
    IN  /\ call.ret \in {Str("Tracked"), Str("Untracked"), Str("YMS Milestone"), Str("")}
        /\ (it = Int_(1) /\ tt \in TelematicsTypes) => call.ret = Str("Tracked")
        /\ (it = Int_(1) /\ tt \in UnknownTypes) => call.ret = Str("YMS Milestone")
        /\ (it = Int_(1) /\ tt \notin TelematicsTypes \cup UnknownTypes)
             => call.ret = Str("Tracked")
        /\ it = Int_(0) => call.ret = Str("Untracked")
        /\ it = NaN => call.ret = Str("")
        /\ call.ret = Str("YMS Milestone") => (it = Int_(1) /\ tt \in UnknownTypes)

\* C2 witness: the call with tracked=1 and the type " Unknown<tab>" returned
\* "YMS Milestone".
C2_Witness ==
  /\ ReturnedFrom("derive_tracked_shipments")
  /\ call.args = << Int_(1), Str(" Unknown\t") >>
  /\ call.ret = Str("YMS Milestone")

\* the normalised text of each identifier cell: missing -> "", whole-number
\* numerics -> their digits, otherwise the trimmed text
NormalizedId(x) ==
  CASE x = NaN -> ""
    [] x = Str("") -> ""
    [] x = Str("   ") -> ""
    [] x = Str(" A1 ") -> "A1"
    [] x = Str("BOL123") -> "BOL123"
    [] x = Str("0") -> "0"
    [] x = Str("00123") -> "00123"
    [] x = Int_(0) -> "0"
    [] x = Int_(100) -> "100"
    [] x = Int_(-7) -> "-7"
    [] x = Float(1000) -> "100"
    [] x = Float(15) -> "1.5"
    [] x = Float(0) -> "0"
    [] x = Bool(TRUE) -> "1"

\* C3: Shipment ID is the normalised Order Number when that is non-empty and the
\* normalised Bill of Lading otherwise; it is empty exactly when both are empty; a
\* whitespace-only Order Number counts as empty, a numeric 0 as the non-empty "0".
C3_ShipmentIdPrecedence ==
  ReturnedFrom("derive_shipment_id") =>
    LET on == NormalizedId(call.args[1])
        bol == NormalizedId(call.args[2])
    IN  /\ on # "" => call.ret = Str(on)
        /\ on = "" => call.ret = Str(bol)
        /\ call.ret = Str("") <=> (on = "" /\ bol = "")
        /\ call.args[1] = Str("   ") => call.ret = Str(bol)
        /\ call.args[1] = Int_(0) => call.ret = Str("0")

\* C3 witness: a whitespace-only Order Number with Bill of Lading "BOL123" returned
\* "BOL123".
C3_Witness ==
  /\ ReturnedFrom("derive_shipment_id")
  /\ call.args = << Str("   "), Str("BOL123") >>
  /\ call.ret = Str("BOL123")

\* ISO-8601 week of a date by the Thursday rule: the week belongs to the year that
\* holds its Thursday, and is numbered by that Thursday's position in the year.
\* 2020-01-01 was a Wednesday.
YearLength(y) == IF y % 4 = 0 /\ (y % 100 # 0 \/ y % 400 = 0) THEN 366 ELSE 365
MonthLengths(y) ==
  << 31, IF YearLength(y) = 366 THEN 29 ELSE 28, 31, 30, 31, 30, 31, 31, 30, 31, 30, 31 >>
RECURSIVE SumTo(_, _)
SumTo(q, n) == IF n = 0 THEN 0 ELSE q[n] + SumTo(q, n - 1)
DayOfYear(date) == SumTo(MonthLengths(date.y), date.m - 1) + date.d
RECURSIVE DaysSince2020(_)
DaysSince2020(y) == IF y <= 2020 THEN 0 ELSE YearLength(y - 1) + DaysSince2020(y - 1)
\* Monday = 1 .. Sunday = 7
IsoWeekday(date) == ((DaysSince2020(date.y) + DayOfYear(date) - 1 + 2) % 7) + 1
IsoWeekOf(date) ==
  LET thursday == DayOfYear(date) - IsoWeekday(date) + 4
  IN  IF thursday < 1 THEN ((thursday + YearLength(date.y - 1) - 1) \div 7) + 1
      ELSE IF thursday > YearLength(date.y) THEN 1
      ELSE ((thursday - 1) \div 7) + 1

TwoDigits(n) == Ch("0123456789", (n \div 10) + 1) \o Ch("0123456789", (n % 10) + 1)

\* C7: Week comes from the start timestamp left of "..." in the pickup window: when
\* it parses to a date d, Week is "Week " and the ISO-8601 week number of d on two
\* digits, so 2025-09-30 gives "Week 40" and 2025-12-29 .. 2026-01-04 give
\* "Week 01"; a missing, empty or unparsable window gives "".
C7_IsoWeekLabel ==
  ReturnedFrom("week") =>
    LET w == call.args[1]
    IN  /\ w \in AbsentWindows => call.ret = Str("")
        /\ w \in Sep30Windows => call.ret = Str("Week 40")
        /\ \A yy \in Years, mm \in 1..12 :
             (w.t = "str" /\ Len(w.s) >= 8
                /\ SubSeq(w.s, 1, 8) = TwoDigits(yy \div 100) \o TwoDigits(yy % 100)
                                          \o "-" \o TwoDigits(mm) \o "-")
               => \A dd \in 1..MonthLengths(yy)[mm] :
                    w = WindowOn([y |-> yy, m |-> mm, d |-> dd])
                      => call.ret = Str("Week " \o TwoDigits(IsoWeekOf([y |-> yy, m |-> mm, d |-> dd])))
        /\ w = WindowOn([y |-> 2025, m |-> 9, d |-> 30]) => call.ret = Str("Week 40")
        /\ \A date \in {[y |-> 2025, m |-> 12, d |-> dd] : dd \in 29..31}
                         \cup {[y |-> 2026, m |-> 1, d |-> dd] : dd \in 1..4} :
             w = WindowOn(date) => call.ret = Str("Week 01")

\* C7 witness: the window starting 2025-12-29 returned "Week 01".
C7_Witness ==
  /\ ReturnedFrom("week")
  /\ call.args[1] = WindowOn([y |-> 2025, m |-> 12, d |-> 29])
  /\ call.ret = Str("Week 01")

====
